---- MODULE Spec2Model ----
(***************************************************************************)
(* A model of ball_simulator (src/main.py): the Game object table, the     *)
(* frame list, the timer-driven Game.tick, the click and toggle handlers.  *)
(*                                                                         *)
(* Numbers.  Coordinates are kept in fixed point: a position component is  *)
(* an integer count of 1/Scale pixels (Scale = 1/0.02 = 50), so the        *)
(* displacement velocity * 0.02 of Ball.tick is exactly `velocity' units.  *)
(* Velocities, radii, world bounds and click points are whole pixels as in *)
(* the source (they all come from randrange or from integer literals).     *)
(* Binary floating-point rounding of 0.02 is not modelled.                 *)
(*                                                                         *)
(* Faults.  A Python exception raised inside a Tk callback ends that       *)
(* callback at the raising statement: what was assigned before it stays,   *)
(* what follows it does not run.  Tk reports it and the main loop goes on. *)
(***************************************************************************)
EXTENDS Integers, Sequences, FiniteSets

VARIABLES
  objects,          \* Game.objects: insertion-ordered dict, a sequence of [key, obj]
  frames,           \* Game._frames: the list of canvases, each a sequence of drawn items
  frame_index,      \* Game._frame_index (0-based as in the source)
  debug,            \* Game.debug
  pause,            \* Game.pause
  tick_stamp,       \* Game.tick_stamp
  last_tick_stamp,  \* Game.last_tick_stamp
  pc,               \* where Game.run is: "run" (spawning balls) or "mainloop"
  armed,            \* a root.after(10, self.tick) callback is pending
  fault,            \* the uncaught exception of the last faulting callback, or "none"
  point,            \* Game.clicked's point: <<where the latest click event was>>, or <<>>
  stdout,           \* the uuids Ball.clicked printed during the latest click event
  nticks,           \* number of Game.tick callbacks run so far
  nclicks,          \* number of click events delivered so far
  call              \* the latest call of Vector2d.__add__ or __iadd__, with its outcome

vars == <<objects, frames, frame_index, debug, pause, tick_stamp, last_tick_stamp,
          pc, armed, fault, point, stdout, nticks, nclicks, call>>

----------------------------------------------------------------------------
(* Bounds of the model (not program constants).                            *)
NumBalls == 2
MaxTicks == 2
MaxClicks == 1
MaxBounceTicks == 56

(* Program constants.                                                      *)
Scale == 50
maxw == 800
maxh == 600
RadiusLo == 10
RadiusHi == 50
VelLo == -50
VelHi == 50
SpawnLo == 100
SpawnXHi == 700
SpawnYHi == 500
ClickLo == 100
ClickYHi == 600
NumFrames == 1

(* The values the random draws are taken from.  randrange(a, b) yields     *)
(* a..b-1; the model draws from the ends of each range and, for the        *)
(* velocity, from the vectors (0, 0) and (lowest, highest).                *)
Radii == {RadiusHi - 1}
Velocities == {[x |-> 0, y |-> 0], [x |-> VelLo, y |-> VelHi - 1]}
SpawnPoints == {[x |-> SpawnLo, y |-> SpawnLo]}
ClickedPoints == {[x |-> ClickLo, y |-> ClickLo], [x |-> ClickLo, y |-> ClickYHi - 1]}
Colors == {0}
(* The wider draws of the runs without input events (SpecBounce): the two  *)
(* far corners of the spawn rectangle, and velocities towards each corner  *)
(* of the world, from where a wall is reached within MaxBounceTicks.       *)
CornerPoints == {[x |-> SpawnLo, y |-> SpawnLo], [x |-> SpawnXHi - 1, y |-> SpawnYHi - 1]}
CornerVelocities ==
  {[x |-> 0, y |-> 0], [x |-> VelLo, y |-> VelLo], [x |-> VelHi - 1, y |-> VelHi - 1]}
(* The points the click events of the model arrive at (whole pixels): the  *)
(* spawn point, and a point below the world's lower edge.                  *)
ClickPoints == {[x |-> SpawnLo, y |-> SpawnLo], [x |-> ClickLo, y |-> maxh + 40]}

Abs(n) == IF n < 0 THEN -n ELSE n

----------------------------------------------------------------------------
(* Vector2d                                                                *)
Vector2d(x, y) == [x |-> x, y |-> y]

VecAdd(a, b) == Vector2d(a.x + b.x, a.y + b.y)

(* isinstance(v, Vector2d): a vector has exactly the attributes x and y; a  *)
(* value of another type is written [value |-> n].                          *)
IsVector2d(v) == DOMAIN v = {"x", "y"}

(* The outcome of a call self.op(other): both operands as the call leaves   *)
(* them, the returned value if any, and the exception if any.               *)
Outcome(self, other, ret, raised) ==
  [self |-> self, other |-> other, ret |-> ret, raised |-> raised]

(* Faulty variant of __add__: adds into the left operand instead of into a copy.    *)
Vector2dAddInPlace(self, other) ==
  IF IsVector2d(other)
    THEN Outcome(VecAdd(self, other), other, <<VecAdd(self, other)>>, "none")
    ELSE Outcome(self, other, <<>>, "TypeError")

(* Vector2d.__add__: the sum is built in a fresh copy s of self.            *)
Vector2dAdd(self, other) ==
  IF IsVector2d(other)
    THEN LET s == Vector2d(self.x, self.y)
         IN Outcome(self, other, <<VecAdd(s, other)>>, "none")
    ELSE Outcome(self, other, <<>>, "TypeError")

(* Vector2d.__iadd__: adds into self and returns self.                      *)
Vector2dIAdd(self, other) ==
  IF IsVector2d(other)
    THEN Outcome(VecAdd(self, other), other, <<VecAdd(self, other)>>, "none")
    ELSE Outcome(self, other, <<>>, "TypeError")

(* velocity * 0.02 in fixed point: v pixels * 0.02 = v units of 1/Scale.   *)
VecMulDt(v) == Vector2d(v.x, v.y)

(* abs(v) = 0 exactly when both components are 0.                          *)
VecAbsIsZero(v) == v.x = 0 /\ v.y = 0

----------------------------------------------------------------------------
(* The object table: a dict in insertion order.                            *)
Keys(d) == {d[i].key : i \in DOMAIN d}

(* Faulty variant of the dict assignment: a new entry on every assignment.         *)
DictSetAppend(d, k, v) == Append(d, [key |-> k, obj |-> v])

DictSet(d, k, v) ==
  IF k \in Keys(d)
    THEN [i \in DOMAIN d |-> IF d[i].key = k THEN [key |-> k, obj |-> v] ELSE d[i]]
    ELSE Append(d, [key |-> k, obj |-> v])

(* uuid.uuid4(): a fresh identifier; which one is immaterial, the model    *)
(* takes the least natural not yet a key.                                  *)
uuid4(d) == CHOOSE u \in 1..(Len(d) + 1) : u \notin Keys(d) /\
                \A w \in 1..(Len(d) + 1) : w \notin Keys(d) => u <= w

IsBall(o) == o.kind = "Ball"
IsRenderable(o) == o.kind \in {"Ball", "FrameStats"}
IsIntersectable(o) == o.kind = "Ball"
IsClickable(o) == o.kind = "Ball"

FrameStats(u) == [kind |-> "FrameStats", uuid |-> u]

Ball(u, position, radius, color, velocity) ==
  [kind |-> "Ball", uuid |-> u, position |-> position, radius |-> radius,
   color |-> color, destroyed |-> FALSE, velocity |-> velocity]

(* IObject.destroyed / Ball.destroyed                                      *)
DestroyedNegated(o) == IF IsBall(o) THEN ~o.destroyed ELSE FALSE

Destroyed(o) == IF IsBall(o) THEN o.destroyed ELSE FALSE

Balls == {i \in DOMAIN objects : IsBall(objects[i].obj)}

----------------------------------------------------------------------------
(* Game.__init__ as run by __main__: Game(debug=True).                     *)
Init ==
  /\ objects = DictSet(DictSet(<<>>, uuid4(<<>>), FrameStats(uuid4(<<>>))),
                       uuid4(<<>>), FrameStats(uuid4(<<>>)))
  /\ frames = [i \in 1..NumFrames |-> <<>>]
  /\ frame_index = 0
  /\ debug = TRUE
  /\ pause = FALSE
  /\ last_tick_stamp = 0
  /\ tick_stamp \in {0, 1}
  /\ pc = "run"
  /\ armed = FALSE
  /\ fault = "none"
  /\ point = <<>>
  /\ stdout = <<>>
  /\ nticks = 0
  /\ nclicks = 0
  /\ call = [op |-> "none", self0 |-> Vector2d(0, 0), other0 |-> Vector2d(0, 0),
             out |-> Outcome(Vector2d(0, 0), Vector2d(0, 0), <<>>, "none")]

----------------------------------------------------------------------------
(* BallFactory.create_random_ball, with Ball.__init__ and IObject.__init__: *)
(* the new ball is stored under its uuid by IObject.__init__ and stored     *)
(* again by the factory.                                                    *)
NewBall(d, radius, at, color, velocity) ==
  Ball(uuid4(d), Vector2d(at.x * Scale, at.y * Scale), radius, color,
          Vector2d(velocity.x, velocity.y))

IObjectInit(d, o) == DictSet(d, o.uuid, o)

CreateRandomBallFrom(points, velocities) ==
  /\ pc = "run"
  /\ Cardinality(Balls) < NumBalls
  /\ \E radius \in Radii, at \in points, color \in Colors,
        velocity \in velocities :
       LET ball == NewBall(objects, radius, at, color, velocity)
       IN objects' = DictSet(IObjectInit(objects, ball), ball.uuid, ball)
  /\ UNCHANGED <<frames, frame_index, debug, pause, tick_stamp, last_tick_stamp,
                 pc, armed, fault, point, stdout, nticks, nclicks, call>>

CreateRandomBall == CreateRandomBallFrom(SpawnPoints, Velocities)

CreateRandomBallCorner == CreateRandomBallFrom(CornerPoints, CornerVelocities)

(* Game.run after the spawning loop: bind the handlers, arm the first tick, *)
(* enter the main loop.                                                     *)
StartMainLoop ==
  /\ pc = "run"
  /\ Cardinality(Balls) = NumBalls
  /\ pc' = "mainloop"
  /\ armed' = TRUE
  /\ UNCHANGED <<objects, frames, frame_index, debug, pause, tick_stamp,
                 last_tick_stamp, fault, point, stdout, nticks, nclicks, call>>

----------------------------------------------------------------------------
(* Ball.tick: displace, then four independent boundary tests in the order   *)
(* right, bottom, left, top, each negating one velocity component.          *)
Negate(c) == c * (-1)

BallTickAssign(b) ==
  LET p  == VecAdd(b.position, VecMulDt(b.velocity))
      r  == b.radius * Scale
      x1 == IF p.x + r > maxw * Scale THEN -1 ELSE b.velocity.x
      y1 == IF p.y + r > maxh * Scale THEN -1 ELSE b.velocity.y
      x2 == IF p.x - r < 0 THEN -1 ELSE x1
      y2 == IF p.y - r < 0 THEN -1 ELSE y1
  IN [b EXCEPT !.position = p, !.velocity = Vector2d(x2, y2)]

(* Faulty variant of Ball.tick: no test at the bottom wall.                        *)
BallTickNoBottom(b) ==
  LET p  == VecAdd(b.position, VecMulDt(b.velocity))
      r  == b.radius * Scale
      x1 == IF p.x + r > maxw * Scale THEN Negate(b.velocity.x) ELSE b.velocity.x
      y1 == b.velocity.y
      x2 == IF p.x - r < 0 THEN Negate(x1) ELSE x1
      y2 == IF p.y - r < 0 THEN Negate(y1) ELSE y1
  IN [b EXCEPT !.position = p, !.velocity = Vector2d(x2, y2)]

BallTick(b) ==
  LET p  == VecAdd(b.position, VecMulDt(b.velocity))
      r  == b.radius * Scale
      x1 == IF p.x + r > maxw * Scale THEN Negate(b.velocity.x) ELSE b.velocity.x
      y1 == IF p.y + r > maxh * Scale THEN Negate(b.velocity.y) ELSE b.velocity.y
      x2 == IF p.x - r < 0 THEN Negate(x1) ELSE x1
      y2 == IF p.y - r < 0 THEN Negate(y1) ELSE y1
  IN [b EXCEPT !.position = p, !.velocity = Vector2d(x2, y2)]

(* IObject.tick is a no-op; Ball overrides it.                             *)
ObjTick(o) == IF IsBall(o) THEN BallTick(o) ELSE o

(* Game.tick, lines 214-216: every object ticks unless the game is paused. *)
TickObjectsUngated(d, paused) == [i \in DOMAIN d |-> [d[i] EXCEPT !.obj = ObjTick(@)]]

TickObjects(d, paused) ==
  IF ~paused THEN [i \in DOMAIN d |-> [d[i] EXCEPT !.obj = ObjTick(@)]] ELSE d

(* Game.tick, lines 218-224: drop the entries whose object says destroyed. *)
Sweep(d) == SelectSeq(d, LAMBDA e : ~Destroyed(e.obj))

----------------------------------------------------------------------------
(* Rendering.  A canvas is the sequence of items created on it.            *)
Drawn(canvas) == [canvas |-> canvas, fault |-> "none"]
Raised(canvas, where) == [canvas |-> canvas, fault |-> where]

(* FrameStats.render (nothing) and FrameStats.render_debug: 1.0/duration   *)
(* raises ZeroDivisionError when the two stamps are equal.                 *)
FrameStatsRender(o, canvas, dbg, duration) ==
  IF ~dbg THEN Drawn(canvas)
  ELSE IF duration = 0 THEN Raised(canvas, "FrameStats.render_debug")
  ELSE Drawn(Append(canvas, [item |-> "stats", uuid |-> o.uuid, duration |-> duration]))

(* Ball.render and Ball.render_debug: the oval; then the dot and the label; *)
(* then 1 / abs(velocity), which raises ZeroDivisionError for velocity      *)
(* (0, 0), before the line is created.                                      *)
BallRender(o, canvas, dbg) ==
  LET oval  == Append(canvas, [item |-> "oval", uuid |-> o.uuid, at |-> o.position])
      dot   == Append(oval, [item |-> "dot", uuid |-> o.uuid, at |-> o.position])
      label == Append(dot, [item |-> "label", uuid |-> o.uuid, at |-> o.position])
      line  == Append(label, [item |-> "line", uuid |-> o.uuid, at |-> o.position])
  IN IF ~dbg THEN Drawn(oval)
     ELSE IF VecAbsIsZero(o.velocity) THEN Raised(label, "Ball.render_debug")
     ELSE Drawn(line)

RenderObj(o, canvas, dbg, duration) ==
  IF ~IsRenderable(o) THEN Drawn(canvas)
  ELSE IF IsBall(o) THEN BallRender(o, canvas, dbg)
  ELSE FrameStatsRender(o, canvas, dbg, duration)

(* Game.tick, lines 226-231: the render loop from entry i on; it ends at   *)
(* the first object whose drawing raises.                                  *)
RECURSIVE RenderLoop(_, _, _, _, _)
RenderLoop(d, i, canvas, dbg, duration) ==
  IF i > Len(d) THEN Drawn(canvas)
  ELSE LET r == RenderObj(d[i].obj, canvas, dbg, duration)
       IN IF r.fault # "none" THEN r
          ELSE RenderLoop(d, i + 1, r.canvas, dbg, duration)

----------------------------------------------------------------------------
(* The frame list.  Indices are 0-based as in the source; frames is 1-based. *)
sanitize_frame_index(index) == index % Len(frames)

frame_canvas == frame_index

next_frame_canvas == sanitize_frame_index(frame_index)

(* Game.switch_frame: clear the current canvas, then step the index.       *)
switch_frame ==
  [frames      |-> [frames EXCEPT ![frame_canvas + 1] = <<>>],
   frame_index |-> sanitize_frame_index(frame_index + 1)]

(* Game.tick, as long as fewer than `most' ticks have run.  `now' is what  *)
(* time.time() returns: the clock is read with a finite resolution, so it  *)
(* either shows the previous reading again or has moved on.  The canvas    *)
(* drawn on is next_frame_canvas as of the switched index.                 *)
TickWithin(most) ==
  /\ pc = "mainloop"
  /\ armed
  /\ nticks < most
  /\ \E now \in {tick_stamp, tick_stamp + 1} :
       LET switched == switch_frame
           target   == sanitize_frame_index(switched.frame_index) + 1
           ticked   == TickObjects(objects, pause)
           live     == Sweep(ticked)
           r        == RenderLoop(live, 1, switched.frames[target], debug,
                                  now - last_tick_stamp)
       IN /\ frame_index' = switched.frame_index
          /\ tick_stamp' = now
          /\ objects' = live
          /\ frames' = [switched.frames EXCEPT ![target] = r.canvas]
          /\ IF r.fault = "none"
               THEN /\ last_tick_stamp' = now
                    /\ armed' = TRUE
                    /\ fault' = fault
               ELSE /\ last_tick_stamp' = last_tick_stamp
                    /\ armed' = FALSE
                    /\ fault' = r.fault
  /\ nticks' = nticks + 1
  /\ UNCHANGED <<debug, pause, pc, point, stdout, nclicks, call>>

Tick == TickWithin(MaxTicks)

TickBounce == TickWithin(MaxBounceTicks)

----------------------------------------------------------------------------
(* Ball.contains: radius > |position - point|, compared as squares.        *)
ContainsClosed(b, at) ==
  LET dx == b.position.x - at.x * Scale
      dy == b.position.y - at.y * Scale
  IN (b.radius * Scale) * (b.radius * Scale) >= dx * dx + dy * dy

Contains(b, at) ==
  LET dx == b.position.x - at.x * Scale
      dy == b.position.y - at.y * Scale
  IN (b.radius * Scale) * (b.radius * Scale) > dx * dx + dy * dy

(* Ball.clicked with the random draws it makes: a point and a velocity.    *)
ClickDraws == [at : ClickedPoints, velocity : Velocities]

(* Faulty variant of Ball.clicked: a clicked ball is made anew, radius included.    *)
BallClickedAnew(b, draw) ==
  [b EXCEPT !.position = Vector2d(draw.at.x * Scale, draw.at.y * Scale),
            !.velocity = Vector2d(draw.velocity.x, draw.velocity.y),
            !.radius = RadiusLo]

BallClicked(b, draw) ==
  [b EXCEPT !.position = Vector2d(draw.at.x * Scale, draw.at.y * Scale),
            !.velocity = Vector2d(draw.velocity.x, draw.velocity.y)]

(* Faulty variant of the test in Game.clicked: contains() is not consulted.        *)
HitAny(o, at) == IsIntersectable(o) /\ IsClickable(o)

Hit(o, at) == IsIntersectable(o) /\ IsClickable(o) /\ Contains(o, at)

HitSet(d, at) == {i \in DOMAIN d : Hit(d[i].obj, at)}

(* Game.clicked, lines 238-241: the loop from entry i on.  st is the table  *)
(* and the output so far; draws[i] is what the random generator gives the   *)
(* i-th entry's clicked().                                                  *)
RECURSIVE GameClickedFirstOnly(_, _, _, _)
GameClickedFirstOnly(st, i, at, draws) ==
  IF i > Len(st.objects) THEN st
  ELSE IF Hit(st.objects[i].obj, at)
    THEN [objects |-> [st.objects EXCEPT ![i].obj = BallClicked(@, draws[i])],
          stdout  |-> Append(st.stdout, st.objects[i].obj.uuid)]
    ELSE GameClickedFirstOnly(st, i + 1, at, draws)

RECURSIVE GameClickedLoop(_, _, _, _)
GameClickedLoop(st, i, at, draws) ==
  IF i > Len(st.objects) THEN st
  ELSE IF Hit(st.objects[i].obj, at)
    THEN GameClickedLoop(
           [objects |-> [st.objects EXCEPT ![i].obj = BallClicked(@, draws[i])],
            stdout  |-> Append(st.stdout, st.objects[i].obj.uuid)],
           i + 1, at, draws)
    ELSE GameClickedLoop(st, i + 1, at, draws)

Clicked(event) ==
  /\ pc = "mainloop"
  /\ nclicks < MaxClicks
  /\ nclicks' = nclicks + 1
  /\ point' = <<Vector2d(event.x, event.y)>>
  /\ \E draws \in [HitSet(objects, event) -> ClickDraws] :
       LET st == GameClickedLoop([objects |-> objects, stdout |-> <<>>], 1, event, draws)
       IN /\ objects' = st.objects
          /\ stdout' = st.stdout
  /\ UNCHANGED <<frames, frame_index, debug, pause, tick_stamp, last_tick_stamp,
                 pc, armed, fault, nticks, call>>

GameClicked == \E event \in ClickPoints : Clicked(event)

(* Game.toggle_pause, Game.toggle_debug                                    *)
(* Faulty variant of toggle_debug: flips the pause flag along with debug.          *)
ToggleDebugBoth ==
  /\ pc = "mainloop"
  /\ debug' = ~debug
  /\ pause' = ~pause
  /\ UNCHANGED <<objects, frames, frame_index, tick_stamp, last_tick_stamp,
                 pc, armed, fault, point, stdout, nticks, nclicks, call>>

TogglePause ==
  /\ pc = "mainloop"
  /\ pause' = ~pause
  /\ UNCHANGED <<objects, frames, frame_index, debug, tick_stamp, last_tick_stamp,
                 pc, armed, fault, point, stdout, nticks, nclicks, call>>

ToggleDebug ==
  /\ pc = "mainloop"
  /\ debug' = ~debug
  /\ UNCHANGED <<objects, frames, frame_index, pause, tick_stamp, last_tick_stamp,
                 pc, armed, fault, point, stdout, nticks, nclicks, call>>

Next ==
  \/ CreateRandomBall
  \/ StartMainLoop
  \/ Tick
  \/ GameClicked
  \/ TogglePause
  \/ ToggleDebug

Spec == Init /\ [][Next]_vars

(* The game started by __main__ and left alone: no click, no key.          *)
NextBounce ==
  \/ CreateRandomBallCorner
  \/ StartMainLoop
  \/ TickBounce

SpecBounce == Init /\ [][NextBounce]_vars

(* Calls of the Vector2d addition operators on operands of both kinds: a   *)
(* vector, or a value that is not a vector.                                 *)
MaxCoord == 2
Vectors == {Vector2d(x, y) : x \in -MaxCoord..MaxCoord, y \in -MaxCoord..MaxCoord}
NonVectors == {[value |-> n] : n \in 0..MaxCoord}
Operands == Vectors \cup NonVectors

GameUnchanged ==
  UNCHANGED <<objects, frames, frame_index, debug, pause, tick_stamp, last_tick_stamp,
              pc, armed, fault, point, stdout, nticks, nclicks>>

CallAdd ==
  /\ \E self \in Vectors, other \in Operands :
       call' = [op |-> "__add__", self0 |-> self, other0 |-> other,
                out |-> Vector2dAdd(self, other)]
  /\ GameUnchanged

CallIAdd ==
  /\ \E self \in Vectors, other \in Operands :
       call' = [op |-> "__iadd__", self0 |-> self, other0 |-> other,
                out |-> Vector2dIAdd(self, other)]
  /\ GameUnchanged

NextVector == CallAdd \/ CallIAdd

SpecVector == Init /\ [][NextVector]_vars

(* Hit tests: balls of radius 20 spawned at (150, 150), at rest or moving,  *)
(* and clicks at points inside, on and outside the circle's edge.           *)
ProbeRadius == 20
ProbeAt == 150
ProbePoints ==
  {[x |-> ProbeAt, y |-> ProbeAt],
   [x |-> ProbeAt + 19, y |-> ProbeAt], [x |-> ProbeAt + 20, y |-> ProbeAt],
   [x |-> ProbeAt + 21, y |-> ProbeAt], [x |-> ProbeAt - 20, y |-> ProbeAt],
   [x |-> ProbeAt, y |-> ProbeAt + 20], [x |-> ProbeAt, y |-> ProbeAt + 21],
   [x |-> ProbeAt + 12, y |-> ProbeAt + 16], [x |-> ProbeAt + 11, y |-> ProbeAt + 16],
   [x |-> ProbeAt - 14, y |-> ProbeAt - 14], [x |-> ProbeAt - 15, y |-> ProbeAt - 14]}

CreateRandomBallProbe ==
  /\ pc = "run"
  /\ Cardinality(Balls) < NumBalls
  /\ \E color \in Colors, velocity \in Velocities :
       LET ball == NewBall(objects, ProbeRadius, Vector2d(ProbeAt, ProbeAt), color, velocity)
       IN objects' = DictSet(IObjectInit(objects, ball), ball.uuid, ball)
  /\ UNCHANGED <<frames, frame_index, debug, pause, tick_stamp, last_tick_stamp,
                 pc, armed, fault, point, stdout, nticks, nclicks, call>>

GameClickedProbe == \E event \in ProbePoints : Clicked(event)

NextContains ==
  \/ CreateRandomBallProbe
  \/ StartMainLoop
  \/ Tick
  \/ GameClickedProbe

SpecContains == Init /\ [][NextContains]_vars

----------------------------------------------------------------------------
(* Shorthands for the properties.                                          *)
TickStep == nticks' = nticks + 1
ClickStep == nclicks' = nclicks + 1

BallAt(i) == objects[i].obj
BallAfter(i) == objects'[i].obj

(* How far the circle of ball b lies beyond each world edge, in 1/Scale    *)
(* pixels (0 or less: inside on that side).                                *)
OverLeft(b) == 0 - (b.position.x - b.radius * Scale)
OverRight(b) == (b.position.x + b.radius * Scale) - maxw * Scale
OverTop(b) == 0 - (b.position.y - b.radius * Scale)
OverBottom(b) == (b.position.y + b.radius * Scale) - maxh * Scale

OutsideX(b) == OverLeft(b) > 0 \/ OverRight(b) > 0
OutsideY(b) == OverTop(b) > 0 \/ OverBottom(b) > 0

----------------------------------------------------------------------------
(* C1: on every unpaused tick, a ball whose edge is outside a boundary on   *)
(* an axis after the displacement leaves the tick with a velocity component *)
(* on that axis of the opposite sign (one positive, the other negative).    *)
C1_ReflectOppositeSign ==
  [][(TickStep /\ ~pause) =>
       \A i \in Balls :
         /\ OutsideX(BallAfter(i)) => BallAt(i).velocity.x * BallAfter(i).velocity.x < 0
         /\ OutsideY(BallAfter(i)) => BallAt(i).velocity.y * BallAfter(i).velocity.y < 0]_vars

(* C2: in every reachable state a ball's circle exceeds the world bounds on *)
(* any side by at most one tick's displacement, |velocity component| * 0.02 *)
(* pixels, which is |velocity component| units of 1/Scale.                  *)
C2_OvershootWithinOneStep ==
  \A i \in Balls :
    /\ OverLeft(BallAt(i)) <= Abs(BallAt(i).velocity.x)
    /\ OverRight(BallAt(i)) <= Abs(BallAt(i).velocity.x)
    /\ OverTop(BallAt(i)) <= Abs(BallAt(i).velocity.y)
    /\ OverBottom(BallAt(i)) <= Abs(BallAt(i).velocity.y)

(* C3: there are two display buffers, and the one drawn into               *)
(* (next_frame_canvas) is never the one presented (frame_canvas).          *)
C3_TwoBuffers == Len(frames) = 2 /\ next_frame_canvas # frame_canvas

(* C4: FrameStats.render_debug never raises, also when the tick duration   *)
(* is 0.                                                                   *)
C4_FrameStatsNeverFaults == fault # "FrameStats.render_debug"

(* C5: Ball.render_debug never raises, also for a ball of velocity (0, 0). *)
C5_BallDebugNeverFaults == fault # "Ball.render_debug"

(* C6: once the main loop runs, a tick callback is pending after every     *)
(* tick: the loop has re-armed itself.                                     *)
C6_TickRearmed == pc = "mainloop" => armed

(* C7: a click at a point invokes clicked() on every ball that contains    *)
(* the point, not only the first: each of them, and no other object,       *)
(* prints its uuid once and is moved to a drawn point with a drawn         *)
(* velocity.                                                               *)
C7_ClickHitsEveryMatch ==
  [][ClickStep =>
       /\ {stdout'[k] : k \in DOMAIN stdout'} =
            {BallAt(i).uuid : i \in HitSet(objects, point'[1])}
       /\ Len(stdout') = Cardinality(HitSet(objects, point'[1]))
       /\ \A i \in HitSet(objects, point'[1]) :
            \E draw \in ClickDraws :
              /\ BallAfter(i).position = Vector2d(draw.at.x * Scale, draw.at.y * Scale)
              /\ BallAfter(i).velocity = Vector2d(draw.velocity.x, draw.velocity.y)]_vars

(* Two overlapping balls were both relocated by the one click delivered.   *)
C7_TwoBallsClicked ==
  /\ nclicks = 1
  /\ Len(stdout) = 2
  /\ stdout[1] # stdout[2]

(* C8 as stated: a paused tick leaves every ball unchanged, and an         *)
(* unpaused tick changes every ball's position.                            *)
C8_UnpausedTickMoves ==
  [][TickStep =>
       \A i \in Balls :
         IF pause
           THEN BallAfter(i) = BallAt(i)
           ELSE BallAfter(i).position # BallAt(i).position]_vars

(* C8 amended: a paused tick leaves every ball's position and velocity     *)
(* unchanged; an unpaused tick adds velocity * 0.02 to every ball's        *)
(* position, so the position differs exactly when the velocity is not      *)
(* (0, 0).                                                                 *)
C8_PauseGatesDisplacement ==
  [][TickStep =>
       \A i \in Balls :
         IF pause
           THEN /\ BallAfter(i).position = BallAt(i).position
                /\ BallAfter(i).velocity = BallAt(i).velocity
           ELSE /\ BallAfter(i).position.x = BallAt(i).position.x + BallAt(i).velocity.x
                /\ BallAfter(i).position.y = BallAt(i).position.y + BallAt(i).velocity.y
                /\ (BallAfter(i).position # BallAt(i).position
                      <=> ~VecAbsIsZero(BallAt(i).velocity))]_vars

(* Two ticks ran without a click, the game is running, and a moving ball   *)
(* is exactly one displacement from its spawn point: one of the two ticks  *)
(* was paused and left it in place, the other moved it.                    *)
C8_ResumedAfterPause ==
  /\ nticks = 2
  /\ nclicks = 0
  /\ ~pause
  /\ \E i \in Balls :
       /\ BallAt(i).velocity.x # 0
       /\ BallAt(i).position.x = SpawnLo * Scale + BallAt(i).velocity.x

(* C9: no step removes an entry of the object table or stores an entity    *)
(* under another key; in the main loop the key set stays the same.         *)
C9_ObjectsKept ==
  [][/\ Len(objects') >= Len(objects)
     /\ \A i \in DOMAIN objects :
          /\ objects'[i].key = objects[i].key
          /\ objects'[i].obj.uuid = objects[i].obj.uuid
     /\ \A i \in DOMAIN objects' : objects'[i].obj.uuid = objects'[i].key
     /\ pc = "mainloop" => Keys(objects') = Keys(objects)]_vars

(* Ticks and a click have run and the table still holds every entity.      *)
C9_AfterTicksAndClicks ==
  /\ nticks = MaxTicks
  /\ nclicks = MaxClicks
  /\ Len(objects) = NumBalls + 1

(* C10: a step that is not a click leaves every velocity component as it   *)
(* is or negates it, so |velocity.x| and |velocity.y| are unchanged; in     *)
(* particular over any number of ticks of a game that gets no click.        *)
C10_TicksConserveSpeed ==
  [][~ClickStep =>
       \A i \in Balls :
         /\ BallAfter(i).velocity.x \in {BallAt(i).velocity.x, -BallAt(i).velocity.x}
         /\ BallAfter(i).velocity.y \in {BallAt(i).velocity.y, -BallAt(i).velocity.y}]_vars

(* All four walls have reflected a ball: one ball drawn with velocity      *)
(* (-50, -50) now has (50, 50), having met the left and the top wall, and  *)
(* one drawn with (49, 49) now has (-49, -49), having met the right and    *)
(* the bottom wall.                                                        *)
C10_Reflected ==
  /\ \E i \in Balls : BallAt(i).velocity = Vector2d(-VelLo, -VelLo)
  /\ \E i \in Balls : BallAt(i).velocity = Vector2d(-(VelHi - 1), -(VelHi - 1))

(* The whole part of the square root of n, found by bisection: the root    *)
(* lies in lo..hi throughout.                                               *)
RECURSIVE SqrtWithin(_, _, _)
SqrtWithin(n, lo, hi) ==
  IF lo = hi THEN lo
  ELSE LET mid == (lo + hi + 1) \div 2
       IN IF mid * mid <= n THEN SqrtWithin(n, mid, hi) ELSE SqrtWithin(n, lo, mid - 1)

(* 46340 is the largest root of a number that fits 32 bits.                *)
FloorSqrt(n) == SqrtWithin(n, 0, IF n < 46340 THEN n ELSE 46340)

(* The distance from ball b's centre to the pixel `at', in whole units of  *)
(* 1/Scale pixels, rounded down.  The radius is a whole number of units,   *)
(* so distance < radius exactly when the rounded distance < radius.        *)
DistanceDown(b, at) ==
  FloorSqrt((b.position.x - at.x * Scale) * (b.position.x - at.x * Scale)
            + (b.position.y - at.y * Scale) * (b.position.y - at.y * Scale))

(* C11: Ball.contains(point) is true iff the distance from the ball's       *)
(* position to the point is strictly less than the radius: a click makes a  *)
(* ball print its uuid exactly when the click point is that near, and a     *)
(* point at distance exactly the radius is not contained.                   *)
C11_ContainsIffInside ==
  [][ClickStep =>
       \A i \in Balls :
         (BallAt(i).uuid \in {stdout'[k] : k \in DOMAIN stdout'})
           <=> DistanceDown(BallAt(i), point'[1]) < BallAt(i).radius * Scale]_vars

(* A click at (170, 150), at distance exactly 20 from a ball of radius 20  *)
(* at (150, 150), has missed it: the ball is where it was, nothing printed. *)
C11_EdgePointMissed ==
  /\ point = <<Vector2d(ProbeAt + ProbeRadius, ProbeAt)>>
  /\ stdout = <<>>
  /\ \E i \in Balls :
       /\ BallAt(i).position = Vector2d(ProbeAt * Scale, ProbeAt * Scale)
       /\ BallAt(i).radius = ProbeRadius

(* A key press: a step of the main loop that is neither a tick nor a click. *)
KeyStep ==
  /\ pc = "mainloop"
  /\ pc' = "mainloop"
  /\ nticks' = nticks
  /\ nclicks' = nclicks

(* C12: the toggles are involutions with no other effect: a key press flips *)
(* exactly one of debug and pause (so pressing the same key twice restores  *)
(* the flag), and it changes neither the other flag, nor the object table,  *)
(* nor any ball, nor the frame buffers.                                     *)
C12_TogglesFlipOneFlag ==
  [][KeyStep =>
       /\ \/ debug' = ~debug /\ pause' = pause
          \/ pause' = ~pause /\ debug' = debug
       /\ objects' = objects
       /\ frames' = frames
       /\ frame_index' = frame_index]_vars

(* Both keys have been pressed an odd number of times before the first     *)
(* tick: debug (initially TRUE) is off and pause (initially FALSE) is on.   *)
C12_BothToggled ==
  /\ pc = "mainloop"
  /\ nticks = 0
  /\ nclicks = 0
  /\ ~debug
  /\ pause

(* C13: Vector2d.__add__ and __iadd__ reject an operand that is not a       *)
(* vector with a TypeError, leaving the left operand as it was; with a      *)
(* vector operand __add__ returns the component-wise sum and leaves both    *)
(* operands as they were, and __iadd__ puts the sum into the left operand   *)
(* and leaves the right one as it was.                                      *)
C13_AddContract ==
  LET s == call.self0
      o == call.other0
      r == call.out
  IN call.op # "none" =>
       IF "x" \in DOMAIN o /\ "y" \in DOMAIN o
         THEN /\ r.raised = "none"
              /\ r.other = o
              /\ r.ret = <<[x |-> s.x + o.x, y |-> s.y + o.y]>>
              /\ call.op = "__add__" => r.self = s
              /\ call.op = "__iadd__" => r.self = [x |-> s.x + o.x, y |-> s.y + o.y]
         ELSE /\ r.raised = "TypeError"
              /\ r.self = s
              /\ r.ret = <<>>

(* __add__ has returned (1, 1) + (1, -2) = (2, -1).                         *)
C13_SumReturned ==
  /\ call.op = "__add__"
  /\ call.self0 = Vector2d(1, 1)
  /\ call.other0 = Vector2d(1, -2)
  /\ call.out.ret = <<Vector2d(2, -1)>>

(* C14: a click resets a ball, it does not remove it: a ball that is hit   *)
(* stays in the table under the same uuid with the same radius and color,   *)
(* its position is drawn with x in [100, 700) and y in [100, 600), and its  *)
(* velocity components in [-50, 50); and no step at all changes the uuid,   *)
(* radius or color of a ball.                                               *)
C14_ClickResetsInPlace ==
  [][/\ \A i \in Balls :
          /\ i \in DOMAIN objects'
          /\ objects'[i].key = objects[i].key
          /\ BallAfter(i).kind = BallAt(i).kind
          /\ BallAfter(i).uuid = BallAt(i).uuid
          /\ BallAfter(i).radius = BallAt(i).radius
          /\ BallAfter(i).color = BallAt(i).color
     /\ ClickStep =>
          \A i \in HitSet(objects, point'[1]) :
            /\ BallAfter(i).position.x >= 100 * Scale
            /\ BallAfter(i).position.x < 700 * Scale
            /\ BallAfter(i).position.y >= 100 * Scale
            /\ BallAfter(i).position.y < 600 * Scale
            /\ BallAfter(i).velocity.x >= -50 /\ BallAfter(i).velocity.x < 50
            /\ BallAfter(i).velocity.y >= -50 /\ BallAfter(i).velocity.y < 50]_vars

(* A ball has printed its uuid and now sits where its click handler drew    *)
(* it, at (100, 599), with the radius it was made with.                     *)
C14_BallReset ==
  /\ nclicks > 0
  /\ \E i \in Balls :
       /\ BallAt(i).uuid \in {stdout[k] : k \in DOMAIN stdout}
       /\ BallAt(i).position = Vector2d(100 * Scale, 599 * Scale)
       /\ BallAt(i).radius \in Radii

(* The canvas a tick has drawn on, and the items of one kind on it that    *)
(* belong to the object with uuid u.                                        *)
CanvasAfter == frames'[sanitize_frame_index(frame_index') + 1]
ItemsAfter(kind, u) ==
  {k \in DOMAIN CanvasAfter : CanvasAfter[k].item = kind /\ CanvasAfter[k].uuid = u}

(* C15: every tick, paused or not, calls render() exactly once on every     *)
(* Renderable, after the update and the sweep, so that each ball is drawn   *)
(* once at the position this tick left it at; and render_debug() is called  *)
(* on it exactly when debug is set (a ball's render_debug starts with the   *)
(* dot).                                                                    *)
C15_EveryRenderableRendered ==
  [][TickStep =>
       \A i \in DOMAIN objects' :
         IsBall(BallAfter(i)) =>
           /\ Cardinality(ItemsAfter("oval", BallAfter(i).uuid)) = 1
           /\ \A k \in ItemsAfter("oval", BallAfter(i).uuid) :
                CanvasAfter[k].at = BallAfter(i).position
           /\ debug <=> ItemsAfter("dot", BallAfter(i).uuid) # {}]_vars

(* C16: an overshoot is transient: a ball whose edge is outside the world  *)
(* bounds is entirely inside again after finitely many unpaused ticks.      *)
(* Ball.tick is a function of the ball alone, so a ball that an unpaused    *)
(* tick leaves outside exactly as it found it would stay outside for ever:  *)
(* no unpaused tick does that.                                              *)
C16_OvershootIsTransient ==
  [][(TickStep /\ ~pause) =>
       \A i \in Balls :
         (OutsideX(BallAt(i)) \/ OutsideY(BallAt(i))) => BallAfter(i) # BallAt(i)]_vars

(* C17: no ball tunnels through a boundary: in every reachable state the   *)
(* centre of every ball is strictly inside the world, 0 < x < 800 and       *)
(* 0 < y < 600.                                                             *)
C17_CentreInsideWorld ==
  \A i \in Balls :
    /\ 0 < BallAt(i).position.x /\ BallAt(i).position.x < 800 * Scale
    /\ 0 < BallAt(i).position.y /\ BallAt(i).position.y < 600 * Scale

(* A ball that a click put at y = 599 with velocity.y = 49 has moved on by  *)
(* one tick: its centre is at y = 599.98, its velocity turned back.         *)
C17_NearestToWall ==
  \E i \in Balls :
    /\ BallAt(i).position.y = 599 * Scale + 49
    /\ BallAt(i).velocity.y = -49

(* C18: a click changes nothing but the balls it hits: every table entry   *)
(* whose object does not contain the click point is as it was (a ball keeps *)
(* its position, velocity, radius and color), and the pause flag, the debug *)
(* flag, the buffer index and the keys of the object table are unchanged.   *)
C18_ClickTouchesOnlyHits ==
  [][ClickStep =>
       /\ \A i \in DOMAIN objects :
            (IsBall(BallAt(i)) => ~Contains(BallAt(i), point'[1]))
              => i \in DOMAIN objects' /\ objects'[i] = objects[i]
       /\ pause' = pause
       /\ debug' = debug
       /\ frame_index' = frame_index
       /\ [i \in DOMAIN objects' |-> objects'[i].key] = [i \in DOMAIN objects |-> objects[i].key]]_vars

(* A click at (169, 150) has hit the ball resting at (150, 150) and missed  *)
(* the one that had moved on by a tick to (149, 150.98).                    *)
C18_OneHitOneMissed ==
  /\ point = <<Vector2d(169, 150)>>
  /\ Len(stdout) = 1
  /\ \E i \in Balls :
       /\ BallAt(i).position = Vector2d(149 * Scale, 150 * Scale + 49)
       /\ BallAt(i).uuid # stdout[1]

(* C19: registration is idempotent: every entity, though stored into the   *)
(* table twice, is in it exactly once, under its own uuid; the table holds  *)
(* one FrameStats and the balls made so far, and from the end of the set-up *)
(* on exactly one FrameStats and all the balls Game.run makes (NumBalls of  *)
(* them), under the same identifiers in every later state.                  *)
C19_RegisteredOnce ==
  /\ \A i, j \in DOMAIN objects :
       (objects[i].key = objects[j].key \/ objects[i].obj.uuid = objects[j].obj.uuid)
         => i = j
  /\ \A i \in DOMAIN objects : objects[i].key = objects[i].obj.uuid
  /\ Cardinality({i \in DOMAIN objects : objects[i].obj.kind = "FrameStats"}) = 1
  /\ Len(objects) = 1 + Cardinality(Balls)
  /\ pc = "mainloop" =>
       /\ Len(objects) = 1 + NumBalls
       /\ Keys(objects) = 1..(1 + NumBalls)

(* The set-up is over, and ticks and a click have happened since.          *)
C19_LaterState ==
  /\ pc = "mainloop"
  /\ nticks > 1
  /\ nclicks > 0
  /\ stdout # <<>>
  /\ Len(objects) = 1 + NumBalls

====
